---- MODULE Spec2Model ----
(***************************************************************************)
(* Security and audit subsystem of the record-management backend:          *)
(*   - middleware/secuirty.py : SecurityMiddleware (rate limiting and      *)
(*     response headers) and CSRFMiddleware;                               *)
(*   - main.py : the application and the middleware it installs;           *)
(*   - routers/audit.py : role-scoped audit queries;                       *)
(*   - routers/auth.py, users.py, documents.py, patients.py and            *)
(*     patient_dashboard.py : the handlers over accounts and records.      *)
(* utils/security.py (rate_limiter, get_client_ip) and utils/deps.py are   *)
(* imported by the sources but are not part of them; they are modelled     *)
(* from the design document (sections 4.3 and 4.4).                        *)
(***************************************************************************)
EXTENDS Integers, Sequences, FiniteSets, TLC

VARIABLES
    stack,       \* the middleware installed on the application, outermost first
    req,         \* the requests in flight
    buckets,     \* rate_limiter: client key -> bucket
    now,         \* time.time()
    calls,       \* per key: is_allowed calls made and admitted in the window
    maxes,       \* per key: the max_requests of those calls (-1: several)
    users,       \* table users
    clinics,     \* table clinics
    audit_logs,  \* table audit_logs, in insertion order
    resp,        \* the last GET /audit/logs call and its response
    patients,    \* table patients
    documents,   \* table documents
    tokens,      \* the access tokens issued, in order of issue
    out          \* the last handler call of the routers and its outcome

mwVars == <<stack, req, buckets, now, calls, maxes>>
dbVars == <<users, clinics, audit_logs, resp>>
recVars == <<patients, documents, tokens, out>>
vars == <<stack, req, buckets, now, calls, maxes,
          users, clinics, audit_logs, resp,
          patients, documents, tokens, out>>

----------------------------------------------------------------------------
(* Bounds of the model.                                                    *)

\* is_allowed calls per client key and window
MaxCalls == 7
\* the clock stops here
MaxTime == 5400
\* the clock advances in steps of this many seconds
TickStep == 1800

Reqs == {"r1", "r2"}
Clients == {"10.0.0.1", "10.0.0.2"}
Methods == {"GET", "POST"}
Paths == {"/documents/upload", "/auth/login", "/patients"}
\* request.headers.get('Authorization'): None, an empty value, a bearer value
NoHeader == "<none>"
AuthHeaders == {NoHeader, "", "Bearer tok"}

----------------------------------------------------------------------------
(* Strings: str.startswith and truthiness, computed on the characters.     *)

Chars(s) ==
    CASE s = "/documents/upload" ->
           <<"/","d","o","c","u","m","e","n","t","s","/","u","p","l","o","a","d">>
      [] s = "/auth/login" -> <<"/","a","u","t","h","/","l","o","g","i","n">>
      [] s = "/auth/" -> <<"/","a","u","t","h","/">>
      [] s = "/patients" -> <<"/","p","a","t","i","e","n","t","s">>
      [] s = "/health" -> <<"/","h","e","a","l","t","h">>
      [] s = "/auth/me" -> <<"/","a","u","t","h","/","m","e">>
      [] s = "/auth" -> <<"/","a","u","t","h">>
      [] s = "/documents/7" -> <<"/","d","o","c","u","m","e","n","t","s","/","7">>
      [] s = "/documents/upload/" ->
           <<"/","d","o","c","u","m","e","n","t","s","/","u","p","l","o","a","d","/">>
      [] s = "Bearer tok" -> <<"B","e","a","r","e","r"," ","t","o","k">>
      [] s = "" -> <<>>

startswith(s, prefix) ==
    /\ Len(Chars(s)) >= Len(Chars(prefix))
    /\ SubSeq(Chars(s), 1, Len(Chars(prefix))) = Chars(prefix)

\* Python truthiness of headers.get(...): None and "" are falsy
Truthy(h) == h # NoHeader /\ Len(Chars(h)) > 0

----------------------------------------------------------------------------
(* SecurityMiddleware.dispatch: the limits chosen from the path.           *)

UploadMax == 10
AuthMax == 5
GeneralMax == 1000
WindowSeconds == 3600

\* limits with the upload and authentication thresholds exchanged
max_requests_exchanged(path) ==
    IF startswith(path, "/documents/upload") THEN AuthMax
    ELSE IF startswith(path, "/auth/") THEN UploadMax
    ELSE GeneralMax

max_requests(path) ==
    IF startswith(path, "/documents/upload") THEN UploadMax
    ELSE IF startswith(path, "/auth/") THEN AuthMax
    ELSE GeneralMax

window(path) ==
    IF startswith(path, "/documents/upload") THEN WindowSeconds
    ELSE IF startswith(path, "/auth/") THEN WindowSeconds
    ELSE WindowSeconds

\* the branch of dispatch a path takes
endpoint_class(path) ==
    IF startswith(path, "/documents/upload") THEN "upload"
    ELSE IF startswith(path, "/auth/") THEN "authentication"
    ELSE "general"

\* the key dispatch hands to the rate limiter: the client address alone
get_client_ip(request) == request.client

----------------------------------------------------------------------------
(* RateLimiter.is_allowed (design document 4.3): fixed-window counting.    *)

NoBucket == [live |-> FALSE, window_start |-> 0, count |-> 0]

Elapsed(b, window_seconds, t) ==
    \/ ~b.live
    \/ t - b.window_start >= window_seconds

is_allowed_lost(b, maxreq, window_seconds, t) ==
    IF Elapsed(b, window_seconds, t)
    THEN [bucket |-> [live |-> TRUE, window_start |-> t, count |-> 1],
          allowed |-> TRUE]
    ELSE [bucket |-> [b EXCEPT !.count = IF @ = 2 THEN @ ELSE @ + 1],
          allowed |-> (IF b.count = 2 THEN 2 ELSE b.count + 1) <= maxreq]

\* a limiter whose rejected calls restart the window
is_allowed_sliding(b, maxreq, window_seconds, t) ==
    IF Elapsed(b, window_seconds, t)
    THEN [bucket |-> [live |-> TRUE, window_start |-> t, count |-> 1],
          allowed |-> TRUE]
    ELSE [bucket |-> [b EXCEPT !.count = @ + 1,
                               !.window_start =
                                   IF b.count + 1 <= maxreq THEN @ ELSE t],
          allowed |-> b.count + 1 <= maxreq]

is_allowed(b, maxreq, window_seconds, t) ==
    IF Elapsed(b, window_seconds, t)
    THEN [bucket |-> [live |-> TRUE, window_start |-> t, count |-> 1],
          allowed |-> TRUE]
    ELSE [bucket |-> [b EXCEPT !.count = @ + 1],
          allowed |-> b.count + 1 <= maxreq]

\* dispatch's call: rate_limiter.is_allowed(client_ip, max_requests, window)
rate_limiter_call_swapped(b, path, t) ==
    is_allowed(b, window(path), max_requests(path), t)

rate_limiter_call(b, path, t) ==
    is_allowed(b, max_requests(path), window(path), t)

----------------------------------------------------------------------------
(* Requests in flight.  depth is the position in the middleware stack:     *)
(* pc = "in" at depth d is about to enter stack[d] (the router when        *)
(* d = Len(stack) + 1); pc = "out" at depth d carries a response back      *)
(* into stack[d] (to the client when d = 0).                               *)

IdleReq ==
    [pc |-> "idle", depth |-> 0, method |-> "", path |-> "",
     auth |-> NoHeader, client |-> "", status |-> 0, hdrs |-> FALSE,
     ran |-> FALSE, rate |-> "none", nth |-> 0, csrf |-> "none"]

\* the nearest middleware at or above depth d that acts on a response
RECURSIVE ReturnTo(_)
ReturnTo(d) ==
    IF d = 0 THEN 0
    ELSE IF stack[d] = "Security" THEN d
    ELSE ReturnTo(d - 1)

\* the server hands a request to the application
Receive(r, method, path, auth, client) ==
    /\ req[r].pc = "idle"
    /\ req' = [req EXCEPT ![r] =
                 [IdleReq EXCEPT !.pc = "in", !.depth = 1, !.method = method,
                                 !.path = path, !.auth = auth,
                                 !.client = client]]
    /\ UNCHANGED <<stack, buckets, now, calls, maxes>>
    /\ UNCHANGED dbVars
    /\ UNCHANGED recVars

\* SecurityMiddleware.dispatch up to call_next: classify, rate-limit
SecurityMiddleware_dispatch(r) ==
    /\ req[r].pc = "in"
    /\ req[r].depth <= Len(stack)
    /\ stack[req[r].depth] = "Security"
    /\ LET client_ip == get_client_ip(req[r])
           m == max_requests(req[r].path)
           w == window(req[r].path)
           fresh == Elapsed(buckets[client_ip], w, now)
           res == rate_limiter_call(buckets[client_ip], req[r].path, now)
           n == IF fresh THEN 1 ELSE calls[client_ip].made + 1
           k == (IF fresh THEN 0 ELSE calls[client_ip].admitted)
                + (IF res.allowed THEN 1 ELSE 0)
       IN /\ n <= MaxCalls
          /\ buckets' = [buckets EXCEPT ![client_ip] = res.bucket]
          /\ calls' = [calls EXCEPT ![client_ip] =
                         [made |-> n, admitted |-> k]]
          /\ maxes' = [maxes EXCEPT ![client_ip] =
                         IF fresh \/ @ = m THEN m ELSE -1]
          /\ req' = [req EXCEPT ![r] =
                       IF res.allowed
                       THEN [@ EXCEPT !.depth = @ + 1, !.rate = "allowed",
                                      !.nth = n]
                       ELSE [@ EXCEPT !.pc = "out",
                                      !.depth = ReturnTo(@ - 1),
                                      !.status = 429, !.rate = "rejected",
                                      !.nth = n]]
    /\ UNCHANGED <<stack, now>>
    /\ UNCHANGED dbVars
    /\ UNCHANGED recVars

\* SecurityMiddleware.dispatch after call_next returned: the headers
SecurityMiddleware_headers(r) ==
    /\ req[r].pc = "out"
    /\ req[r].depth >= 1
    /\ stack[req[r].depth] = "Security"
    /\ req' = [req EXCEPT ![r] =
                 [@ EXCEPT !.hdrs = TRUE, !.depth = ReturnTo(@ - 1)]]
    /\ UNCHANGED <<stack, buckets, now, calls, maxes>>
    /\ UNCHANGED dbVars
    /\ UNCHANGED recVars

SafeMethods == {"GET", "HEAD", "OPTIONS"}

\* CSRFMiddleware.dispatch: what becomes of a request
CsrfCheck_inverted(request) ==
    IF request.method \in SafeMethods THEN "skipped"
    ELSE IF startswith(request.path, "/auth/") THEN "skipped"
    ELSE IF Truthy(request.auth) THEN "rejected"
    ELSE "passed"

CsrfCheck_no_auth_skip(request) ==
    IF request.method \in SafeMethods THEN "skipped"
    ELSE IF ~Truthy(request.auth) THEN "rejected"
    ELSE "passed"

CsrfCheck(request) ==
    IF request.method \in SafeMethods THEN "skipped"
    ELSE IF startswith(request.path, "/auth/") THEN "skipped"
    ELSE IF ~Truthy(request.auth) THEN "rejected"
    ELSE "passed"

CSRFMiddleware_dispatch(r) ==
    /\ req[r].pc = "in"
    /\ req[r].depth <= Len(stack)
    /\ stack[req[r].depth] = "CSRF"
    /\ req' = [req EXCEPT ![r] =
                 IF CsrfCheck(req[r]) = "rejected"
                 THEN [@ EXCEPT !.pc = "out", !.depth = ReturnTo(@ - 1),
                                !.status = 403, !.csrf = "rejected"]
                 ELSE [@ EXCEPT !.depth = @ + 1, !.csrf = CsrfCheck(req[r])]]
    /\ UNCHANGED <<stack, buckets, now, calls, maxes>>
    /\ UNCHANGED dbVars
    /\ UNCHANGED recVars

\* CORSMiddleware as installed by main.py forwards the request
CORSMiddleware_dispatch(r) ==
    /\ req[r].pc = "in"
    /\ req[r].depth <= Len(stack)
    /\ stack[req[r].depth] = "CORS"
    /\ req' = [req EXCEPT ![r] = [@ EXCEPT !.depth = @ + 1]]
    /\ UNCHANGED <<stack, buckets, now, calls, maxes>>
    /\ UNCHANGED dbVars
    /\ UNCHANGED recVars

\* routes whose handler depends on get_current_active_user or stricter
Protected(path) == ~startswith(path, "/auth/")

\* the dependency a protected route resolves before its handler: a bearer
\* value that is present and verifies, or 401
get_current_active_user(request, tokenValid) ==
    IF Truthy(request.auth) /\ tokenValid THEN "ok" ELSE "unauthorized"

\* the router: resolve the dependencies (authentication), run the handler
Route(r) ==
    /\ req[r].pc = "in"
    /\ req[r].depth = Len(stack) + 1
    /\ \E tokenValid \in BOOLEAN :
         req' = [req EXCEPT ![r] =
                   IF /\ Protected(req[r].path)
                      /\ get_current_active_user(req[r], tokenValid) # "ok"
                   THEN [@ EXCEPT !.pc = "out",
                                  !.depth = ReturnTo(Len(stack)),
                                  !.status = 401]
                   ELSE [@ EXCEPT !.pc = "out",
                                  !.depth = ReturnTo(Len(stack)),
                                  !.status = 200, !.ran = TRUE]]
    /\ UNCHANGED <<stack, buckets, now, calls, maxes>>
    /\ UNCHANGED dbVars
    /\ UNCHANGED recVars

\* the response has left; the slot serves the next request
Complete(r) ==
    /\ req[r].pc = "out"
    /\ req[r].depth = 0
    /\ req' = [req EXCEPT ![r] = IdleReq]
    /\ UNCHANGED <<stack, buckets, now, calls, maxes>>
    /\ UNCHANGED dbVars
    /\ UNCHANGED recVars

\* time.time() advances
Tick ==
    /\ now + TickStep <= MaxTime
    /\ now' = now + TickStep
    /\ UNCHANGED <<stack, req, buckets, calls, maxes>>
    /\ UNCHANGED dbVars
    /\ UNCHANGED recVars

----------------------------------------------------------------------------
(* The database: users, clinics and the audit trail.                       *)

\* SQL NULL / Python None for integer columns and parameters
None == -1
\* Python None for enum-valued parameters
NoneStr == "None"

\* audit rows held by the model
MaxLogs == 2

\* The registered accounts, by user id: a system administrator, two clinic
\* administrators, a clinic staff member and a patient; and the clinics of
\* the two clinic administrators, by clinic id.
RegisteredUsers ==
    <<[role |-> "admin", is_active |-> TRUE, email |-> "admin@x",
       hashed_password |-> <<"hash", "Secret1!">>],
      [role |-> "clinic_admin", is_active |-> TRUE, email |-> "ca1@x",
       hashed_password |-> <<"hash", "Secret1!">>],
      [role |-> "clinic_admin", is_active |-> TRUE, email |-> "ca2@x",
       hashed_password |-> <<"hash", "Secret1!">>],
      [role |-> "clinic_staff", is_active |-> TRUE, email |-> "staff@x",
       hashed_password |-> <<"hash", "Secret1!">>],
      [role |-> "patient", is_active |-> TRUE, email |-> "pat@x",
       hashed_password |-> <<"hash", "Secret1!">>]>>

RegisteredClinics == <<[admin_user_id |-> 2], [admin_user_id |-> 3]>>

\* AuditLog rows the logger writes: an anonymous failed login, and actions
\* of the staff member and of the patient on each kind of entity
AuditRows ==
    {[user_id |-> None, action |-> "login", entity_type |-> "user",
      clinic_id |-> None, patient_id |-> None, success |-> FALSE]}
    \cup
    {[user_id |-> u,
      action |-> IF e = "document" THEN "download" ELSE "view",
      entity_type |-> e, clinic_id |-> c,
      patient_id |-> IF e = "user" THEN None ELSE 1, success |-> TRUE] :
        u \in {4, 5}, c \in {1, 2}, e \in {"user", "patient", "document"}}

\* the logger adds a row; id and created_at are set by the database
AuditLogInsert(row) ==
    /\ Len(audit_logs) < MaxLogs
    /\ audit_logs' = Append(audit_logs,
           [id |-> Len(audit_logs) + 1, user_id |-> row.user_id,
            action |-> row.action, entity_type |-> row.entity_type,
            clinic_id |-> row.clinic_id, patient_id |-> row.patient_id,
            success |-> row.success, created_at |-> Len(audit_logs) + 1])
    /\ UNCHANGED <<users, clinics, resp>>
    /\ UNCHANGED mwVars
    /\ UNCHANGED recVars

----------------------------------------------------------------------------
(* routers/audit.py: get_audit_logs.                                       *)

\* db.query(Clinic).filter(Clinic.admin_user_id == current_user).first():
\* the results first() may return (None when there is no such clinic)
FirstClinic(current_user) ==
    LET found == {c \in DOMAIN clinics :
                    clinics[c].admin_user_id = current_user}
    IN IF found = {} THEN {None} ELSE found

\* role-based filtering of one row; clinic is the result of FirstClinic
RoleScope_fail_open(log, current_user, clinic) ==
    LET role == users[current_user].role
    IN IF role = "admin" THEN TRUE
       ELSE IF role \in {"clinic_admin", "clinic_staff"}
       THEN IF clinic # None
            THEN log.clinic_id = clinic
            ELSE TRUE
       ELSE IF role = "patient"
       THEN /\ log.user_id = current_user
            /\ log.entity_type \in {"user", "document"}
       ELSE FALSE

RoleScope_patient_or(log, current_user, clinic) ==
    LET role == users[current_user].role
    IN IF role = "admin" THEN TRUE
       ELSE IF role \in {"clinic_admin", "clinic_staff"}
       THEN IF clinic # None
            THEN log.clinic_id = clinic
            ELSE log.user_id = current_user
       ELSE IF role = "patient"
       THEN \/ log.user_id = current_user
            \/ log.entity_type \in {"user", "document"}
       ELSE FALSE

RoleScope_user_as_clinic(log, current_user, clinic) ==
    LET role == users[current_user].role
    IN IF role = "admin" THEN TRUE
       ELSE IF role \in {"clinic_admin", "clinic_staff"}
       THEN IF clinic # None
            THEN log.clinic_id = current_user
            ELSE log.user_id = current_user
       ELSE IF role = "patient"
       THEN /\ log.user_id = current_user
            /\ log.entity_type \in {"user", "document"}
       ELSE FALSE

RoleScope(log, current_user, clinic) ==
    LET role == users[current_user].role
    IN IF role = "admin" THEN TRUE
       ELSE IF role \in {"clinic_admin", "clinic_staff"}
       THEN IF clinic # None
            THEN log.clinic_id = clinic
            ELSE log.user_id = current_user
       ELSE IF role = "patient"
       THEN /\ log.user_id = current_user
            /\ log.entity_type \in {"user", "document"}
       ELSE FALSE

\* Python truthiness of an Optional[int] parameter
TruthyInt(x) == x # None /\ x # 0

\* the caller's filters on one row; success is <<>> (None) or <<b>>
Filters(log, action, entity_type, user_id, clinic_id, patient_id, date_from, date_to, success) ==
    /\ action # NoneStr => log.action = action
    /\ entity_type # NoneStr => log.entity_type = entity_type
    /\ TruthyInt(user_id) => log.user_id = user_id
    /\ TruthyInt(clinic_id) => log.clinic_id = clinic_id
    /\ TruthyInt(patient_id) => log.patient_id = patient_id
    /\ date_from # None => log.created_at >= date_from
    /\ date_to # None => log.created_at <= date_to
    /\ Len(success) > 0 => log.success = success[1]

\* the query built by lines 42-84: each filter() narrows the one before
Matches_rebased(log, current_user, clinic, action, entity_type, user_id, clinic_id, patient_id, date_from, date_to, success) ==
    IF TruthyInt(user_id)
    THEN Filters(log, action, entity_type, user_id, clinic_id, patient_id,
                 date_from, date_to, success)
    ELSE /\ RoleScope(log, current_user, clinic)
         /\ Filters(log, action, entity_type, user_id, clinic_id,
                    patient_id, date_from, date_to, success)

Matches(log, current_user, clinic, action, entity_type, user_id, clinic_id, patient_id, date_from, date_to, success) ==
    /\ RoleScope(log, current_user, clinic)
    /\ Filters(log, action, entity_type, user_id, clinic_id, patient_id,
               date_from, date_to, success)

\* order_by(desc(created_at)) of the rows with ids in S: every order the
\* database may return (rows of equal created_at come in any order)
RECURSIVE Orderings(_)
Orderings(S) ==
    IF S = {} THEN {<<>>}
    ELSE LET newest == {i \in S : \A j \in S :
                          audit_logs[i].created_at >= audit_logs[j].created_at}
         IN UNION {{<<i>> \o rest : rest \in Orderings(S \ {i})} :
                     i \in newest}

\* offset(offset).limit(limit)
Slice(seq, offset, limit) ==
    SubSeq(seq, offset + 1,
           IF offset + limit < Len(seq) THEN offset + limit ELSE Len(seq))

\* AuditLogResponse.from_orm: the fields of the row copied into the response
from_orm(log) ==
    [id |-> log.id, user_id |-> log.user_id, clinic_id |-> log.clinic_id,
     entity_type |-> log.entity_type]

NoResp ==
    [called |-> FALSE, user |-> None, clinic |-> None, user_id |-> None,
     clinic_id |-> None, filtered |-> FALSE, page |-> 0, per_page |-> 0,
     rows |-> 0, logs |-> <<>>, total |-> 0]

get_audit_logs(current_user, page, per_page, action, entity_type, user_id, clinic_id, patient_id, date_from, date_to, success) ==
    /\ ~resp.called
    /\ users[current_user].is_active
    /\ \E clinic \in FirstClinic(current_user) :
         LET query == {i \in DOMAIN audit_logs :
                         Matches(audit_logs[i], current_user, clinic, action,
                                 entity_type, user_id, clinic_id, patient_id,
                                 date_from, date_to, success)}
             total == Cardinality(query)
             offset == (page - 1) * per_page
         IN \E ordered \in Orderings(query) :
              LET logs == Slice(ordered, offset, per_page)
              IN resp' = [called |-> TRUE, user |-> current_user,
                          clinic |-> clinic, user_id |-> user_id,
                          clinic_id |-> clinic_id,
                          filtered |->
                              \/ action # NoneStr
                              \/ entity_type # NoneStr
                              \/ TruthyInt(user_id)
                              \/ TruthyInt(clinic_id)
                              \/ TruthyInt(patient_id)
                              \/ date_from # None
                              \/ date_to # None
                              \/ Len(success) > 0,
                           page |-> page, per_page |-> per_page,
                          rows |-> Len(audit_logs),
                          logs |-> [k \in 1..Len(logs) |->
                                      from_orm(audit_logs[logs[k]])],
                          total |-> total]
    /\ UNCHANGED <<users, clinics, audit_logs>>
    /\ UNCHANGED mwVars
    /\ UNCHANGED recVars

\* the response has been sent
AuditResponseSent ==
    /\ resp.called
    /\ resp' = NoResp
    /\ UNCHANGED <<users, clinics, audit_logs>>
    /\ UNCHANGED mwVars
    /\ UNCHANGED recVars

\* the query parameters tried: <<page, per_page>> (the defaults) and the filters
PageParams == {<<1, 20>>}
ActionParams == {NoneStr, "view"}
EntityParams == {NoneStr, "document"}
UserIdParams == {None, 0, 5}
ClinicIdParams == {None, 2}
PatientIdParams == {None, 1}
DateParams == {None, 2}
SuccessParams == {<<>>, <<TRUE>>, <<FALSE>>}

----------------------------------------------------------------------------
(* routers/auth.py and routers/users.py: login, tokens, the profile.       *)
(* utils/auth.py (verify_password, create_access_token) and utils/deps.py  *)
(* are modelled from the design document (4.1, 4.2, 4.4).                  *)

\* access tokens issued
MaxTokens == 2

\* config.py: access_token_expire_minutes, and the seconds of a minute
access_token_expire_minutes == 30
SecondsPerMinute == 60
timedelta_minutes(m) == m * SecondsPerMinute

\* the instants at which requests are made
Instants == {0, 1, 1799, 1800, 1801, 3600, 3601}

\* settings.secret_key, and a key it is not
SecretKey == "secret_key"
OtherKey == "other_key"

\* CredentialHasher
get_password_hash(password) == <<"hash", password>>
verify_password(plain_password, hashed_password) ==
    hashed_password = get_password_hash(plain_password)

\* TokenService.issue without issue metadata: the salt is always the same
create_access_token_unsalted(sub, expires_delta, t, salt) ==
    [sub |-> sub, exp |-> t + expires_delta, salt |-> 0, key |-> SecretKey]

\* TokenService.issue: create_access_token(data={"sub": sub}, expires_delta)
\* at time t, with the issue metadata salt
create_access_token(sub, expires_delta, t, salt) ==
    [sub |-> sub, exp |-> t + expires_delta, salt |-> salt, key |-> SecretKey]

\* TokenService.verify that already refuses the token at its expiry
verify_token_early(token, t) ==
    IF token.key # SecretKey THEN [ok |-> FALSE, error |-> "TokenInvalid"]
    ELSE IF t >= token.exp THEN [ok |-> FALSE, error |-> "TokenExpired"]
    ELSE [ok |-> TRUE, sub |-> token.sub]

\* TokenService.verify at time t: the subject, or the failure
verify_token(token, t) ==
    IF token.key # SecretKey THEN [ok |-> FALSE, error |-> "TokenInvalid"]
    ELSE IF t > token.exp THEN [ok |-> FALSE, error |-> "TokenExpired"]
    ELSE [ok |-> TRUE, sub |-> token.sub]

\* db.query(User).filter(User.email == email).first(): the user id, or None
UserByEmail(email) ==
    IF \E u \in DOMAIN users : users[u].email = email
    THEN CHOOSE u \in DOMAIN users : users[u].email = email
    ELSE None

\* AccessGuard that trusts the token alone
get_current_active_user_id_stale(token, t) ==
    IF verify_token(token, t).ok
    THEN UserByEmail(verify_token(token, t).sub)
    ELSE None

\* AccessGuard (get_current_active_user): the id of the active user the
\* token stands for, or None (401)
get_current_active_user_id(token, t) ==
    LET v == verify_token(token, t)
        u == IF v.ok THEN UserByEmail(v.sub) ELSE None
    IN IF u # None /\ users[u].is_active THEN u ELSE None

NoToken == [sub |-> NoneStr, exp |-> 0, salt |-> 0, key |-> NoneStr]
NoOut ==
    [op |-> "none", status |-> 0, user |-> None, token |-> NoToken, at |-> 0]

\* a login that looks at the account state before the credentials
LoginStatus_active_first(username, password) ==
    LET user == UserByEmail(username)
    IN IF user = None THEN 401
       ELSE IF ~users[user].is_active THEN 400
       ELSE IF ~verify_password(password, users[user].hashed_password)
       THEN 401
       ELSE 200

\* lines 69-84 of login (104-116 of login_json): the status of the attempt
LoginStatus(username, password) ==
    LET user == UserByEmail(username)
    IN IF user = None
          \/ ~verify_password(password, users[user].hashed_password)
       THEN 401
       ELSE IF ~users[user].is_active THEN 400
       ELSE 200

\* the detail of the HTTPException raised with the status (lines 75, 83)
LoginDetail(st) ==
    IF st = 401 THEN "Incorrect email or password"
    ELSE IF st = 400 THEN "Inactive user"
    ELSE ""

\* the body shared by login and login_json
LoginBody(op, username, password) ==
    LET st == LoginStatus(username, password)
        access_token_expires ==
            timedelta_minutes(access_token_expire_minutes)
        access_token ==
            create_access_token(username, access_token_expires, now,
                                Len(tokens) + 1)
    IN /\ st = 200 => Len(tokens) < MaxTokens
       /\ tokens' = IF st = 200 THEN Append(tokens, access_token) ELSE tokens
       /\ out' = [op |-> op, status |-> st,
                  user |-> IF st = 200 THEN UserByEmail(username) ELSE None,
                  token |-> IF st = 200 THEN access_token ELSE NoToken,
                  at |-> now, detail |-> LoginDetail(st),
                  username |-> username, password |-> password]
       /\ UNCHANGED <<users, clinics, audit_logs, resp, patients, documents,
                      now>>
       /\ UNCHANGED <<stack, req, buckets, calls, maxes>>

\* POST /auth/login (form) and POST /auth/login/json
login(username, password) == LoginBody("login", username, password)
login_json(email, password) == LoginBody("login_json", email, password)

\* what a client may present as a bearer token: a token it was issued, or
\* one signed with another key
Presented ==
    {tokens[i] : i \in DOMAIN tokens}
    \cup {[tokens[i] EXCEPT !.key = OtherKey] : i \in DOMAIN tokens}

\* GET /auth/me
get_current_user_profile(token) ==
    LET current_user == get_current_active_user_id(token, now)
    IN /\ out' = [op |-> "me",
                  status |-> IF current_user = None THEN 401 ELSE 200,
                  user |-> current_user, token |-> token, at |-> now]
       /\ UNCHANGED <<users, clinics, audit_logs, resp, patients, documents,
                      tokens, now>>
       /\ UNCHANGED <<stack, req, buckets, calls, maxes>>

\* PUT /users/profile: setattr of every field set in the body, then commit
\* (users.email is unique: the commit fails when another row has the email)
update_user_profile(token, update_data) ==
    LET current_user == get_current_active_user_id(token, now)
        updated ==
            [f \in DOMAIN users[current_user] |->
                IF f \in DOMAIN update_data THEN update_data[f]
                ELSE users[current_user][f]]
        conflict ==
            \E u \in DOMAIN users :
               u # current_user /\ users[u].email = updated.email
    IN /\ out' = [op |-> "update_profile",
                  status |-> IF current_user = None THEN 401
                             ELSE IF conflict THEN 500 ELSE 200,
                  user |-> current_user, token |-> token, at |-> now]
       /\ users' = IF current_user = None \/ conflict THEN users
                   ELSE [users EXCEPT ![current_user] = updated]
       /\ UNCHANGED <<clinics, audit_logs, resp, patients, documents,
                      tokens, now>>
       /\ UNCHANGED <<stack, req, buckets, calls, maxes>>

\* time passes between requests
Clock ==
    /\ \E t \in Instants : t > now /\ now' = t
    /\ UNCHANGED <<stack, req, buckets, calls, maxes>>
    /\ UNCHANGED dbVars
    /\ UNCHANGED recVars

\* the credentials and the profile changes tried
LoginNames == {"staff@x", "pat@x", "nobody@x"}
Passwords == {"Secret1!", "wrong"}
UpdateData ==
    <<[is_active |-> FALSE], [is_active |-> TRUE], [email |-> "new@x"],
      [email |-> "pat@x"]>>

\* table patients, by patient id, and table documents, by document id
RegisteredPatients ==
    <<[user_id |-> 5, clinic_id |-> 1, phone |-> "p0", live |-> TRUE],
      [user_id |-> None, clinic_id |-> 2, phone |-> "p0", live |-> TRUE]>>
StoredDocuments ==
    <<[patient_id |-> 1, clinic_id |-> 1, live |-> TRUE],
      [patient_id |-> 2, clinic_id |-> 2, live |-> TRUE],
      [patient_id |-> None, clinic_id |-> 2, live |-> TRUE]>>

----------------------------------------------------------------------------
(* routers/documents.py, routers/patients.py, routers/patient_dashboard.py *)
(* and the writing endpoints of routers/audit.py.  The principal is the    *)
(* active user the dependency resolved.  utils/audit.py (AuditLogger) is   *)
(* modelled from the design document (4.5).                                *)

ClinicRoles == {"clinic_admin", "clinic_staff"}

\* Depends(require_clinic_access): staff of a clinic, or above
require_clinic_access(current_user) ==
    users[current_user].role \in ClinicRoles \cup {"admin"}

\* db.query(Patient).filter(Patient.user_id == current_user.id).first()
PatientOf(current_user) ==
    IF \E q \in DOMAIN patients :
          patients[q].live /\ patients[q].user_id = current_user
    THEN CHOOSE q \in DOMAIN patients :
            patients[q].live /\ patients[q].user_id = current_user
    ELSE None

\* documents.py lines 157-166: the permission check of get_document
document_allowed(current_user, clinic, document) ==
    IF users[current_user].role = "patient"
    THEN ~ (PatientOf(current_user) = None
            \/ document.patient_id # PatientOf(current_user))
    ELSE IF users[current_user].role \in ClinicRoles
    THEN ~ (clinic # None /\ document.clinic_id # clinic)
    ELSE TRUE

\* documents.py lines 282-284, patients.py lines 277-279: the clinic check
\* of the handlers behind require_clinic_access
clinic_allowed(current_user, clinic, clinic_id) ==
    ~ (clinic # None /\ clinic_id # clinic)

\* the outcome of a handler call: who called what on which row
Outcome(op, status, current_user, target, clinic) ==
    [op |-> op, status |-> status, user |-> current_user,
     target |-> target, clinic |-> clinic, audit_failed |-> FALSE]

RecFrame ==
    /\ UNCHANGED <<users, clinics, resp, tokens, now>>
    /\ UNCHANGED <<stack, req, buckets, calls, maxes>>

\* GET /documents/{document_id}
get_document(current_user, document_id) ==
    /\ users[current_user].is_active
    /\ \E clinic \in FirstClinic(current_user) :
         out' = Outcome("get_document",
                        IF ~documents[document_id].live THEN 404
                        ELSE IF ~document_allowed(current_user, clinic,
                                                  documents[document_id])
                        THEN 403 ELSE 200,
                        current_user, document_id, clinic)
    /\ UNCHANGED <<patients, documents, audit_logs>>
    /\ RecFrame

\* DELETE /documents/{document_id}
delete_document(current_user, document_id) ==
    /\ users[current_user].is_active
    /\ \E clinic \in FirstClinic(current_user) :
         LET st == IF ~require_clinic_access(current_user) THEN 403
                   ELSE IF ~documents[document_id].live THEN 404
                   ELSE IF ~clinic_allowed(current_user, clinic,
                                documents[document_id].clinic_id)
                   THEN 403 ELSE 200
         IN /\ out' = Outcome("delete_document", st, current_user,
                              document_id, clinic)
            /\ documents' = IF st = 200
                            THEN [documents EXCEPT
                                     ![document_id].live = FALSE]
                            ELSE documents
    /\ UNCHANGED <<patients, audit_logs>>
    /\ RecFrame

\* PUT /patients/{patient_id}
update_patient(current_user, patient_id, phone) ==
    /\ users[current_user].is_active
    /\ \E clinic \in FirstClinic(current_user) :
         LET patient == patients[patient_id]
             st == IF ~patient.live THEN 404
                   ELSE IF users[current_user].role = "patient"
                   THEN (IF patient.user_id # current_user THEN 403
                         ELSE 200)
                   ELSE IF users[current_user].role \in ClinicRoles
                   THEN (IF clinic # None /\ patient.clinic_id # clinic
                         THEN 403 ELSE 200)
                   ELSE 200
         IN /\ out' = Outcome("update_patient", st, current_user,
                              patient_id, clinic)
            /\ patients' = IF st = 200
                           THEN [patients EXCEPT ![patient_id].phone = phone]
                           ELSE patients
    /\ UNCHANGED <<documents, audit_logs>>
    /\ RecFrame

\* audit rows once a patient row is deleted with rows that cascade
AuditAfterPatientDelete_cascade(patient_id) ==
    SelectSeq(audit_logs, LAMBDA row : row.patient_id # patient_id)

\* audit rows once db.delete(patient) is committed: AuditLog.patient is a
\* many-to-one relationship without backref or cascade
AuditAfterPatientDelete(patient_id) == audit_logs

\* DELETE /patients/{patient_id}; audit_logs.patient_id is a foreign key to
\* patients.id, so a database that enforces it refuses the delete
delete_patient(current_user, patient_id) ==
    /\ users[current_user].is_active
    /\ \E clinic \in FirstClinic(current_user) :
         LET patient == patients[patient_id]
             document_count ==
                Cardinality({d \in DOMAIN documents :
                               /\ documents[d].live
                               /\ documents[d].patient_id = patient_id})
             referenced ==
                \E i \in DOMAIN audit_logs :
                   audit_logs[i].patient_id = patient_id
         IN \E enforced \in BOOLEAN :
              LET st == IF ~require_clinic_access(current_user) THEN 403
                        ELSE IF ~patient.live THEN 404
                        ELSE IF ~clinic_allowed(current_user, clinic,
                                                patient.clinic_id)
                        THEN 403
                        ELSE IF document_count > 0 THEN 400
                        ELSE IF referenced /\ enforced THEN 500
                        ELSE 200
              IN /\ out' = Outcome("delete_patient", st, current_user,
                                   patient_id, clinic)
                 /\ patients' = IF st = 200
                                THEN [patients EXCEPT
                                         ![patient_id].live = FALSE]
                                ELSE patients
                 /\ audit_logs' = IF st = 200
                                  THEN AuditAfterPatientDelete(patient_id)
                                  ELSE audit_logs
    /\ UNCHANGED documents
    /\ RecFrame

\* AuditLogger.record (design document 4.5): always produces an entry; a
\* failed store write is reported and not raised into the business operation
log_action(row, write_ok) ==
    [entry |-> row, stored |-> write_ok, raised |-> FALSE]

\* the table after the logger's call
Logged(res) ==
    IF res.stored
    THEN Append(audit_logs,
                [id |-> Len(audit_logs) + 1, user_id |-> res.entry.user_id,
                 action |-> res.entry.action,
                 entity_type |-> res.entry.entity_type,
                 clinic_id |-> res.entry.clinic_id,
                 patient_id |-> res.entry.patient_id,
                 success |-> res.entry.success,
                 created_at |-> Len(audit_logs) + 1])
    ELSE audit_logs

\* log_patient_action(action=VIEW, user, patient_id, ...)
log_patient_action(current_user, patient_id, write_ok) ==
    log_action([user_id |-> current_user, action |-> "view",
                entity_type |-> "patient", clinic_id |-> None,
                patient_id |-> patient_id, success |-> TRUE], write_ok)

\* log_user_action(action=VIEW, user, ...)
log_user_action(current_user, write_ok) ==
    log_action([user_id |-> current_user, action |-> "view",
                entity_type |-> "user", clinic_id |-> None,
                patient_id |-> None, success |-> TRUE], write_ok)

\* a handler that gives up when the audit row could not be stored
LoggedOutcome_abort(op, current_user, target, res) ==
    [Outcome(op, IF res.raised \/ ~res.stored THEN 500 ELSE 200,
             current_user, target, None)
     EXCEPT !.audit_failed = ~res.stored]

\* a handler that logs and then answers: an exception out of the logger
\* is not caught by the handler and ends the request with 500
LoggedOutcome(op, current_user, target, res) ==
    [Outcome(op, IF res.raised THEN 500 ELSE 200, current_user, target,
             None)
     EXCEPT !.audit_failed = ~res.stored]

\* GET /patient-dashboard/
get_patient_dashboard(current_user, write_ok) ==
    /\ users[current_user].is_active
    /\ write_ok => Len(audit_logs) < MaxLogs
    /\ LET patient == PatientOf(current_user)
           res == log_patient_action(current_user, patient, write_ok)
       IN IF users[current_user].role # "patient"
          THEN /\ out' = Outcome("get_patient_dashboard", 403, current_user,
                                 None, None)
               /\ UNCHANGED audit_logs
          ELSE IF patient = None
          THEN /\ out' = Outcome("get_patient_dashboard", 404, current_user,
                                 None, None)
               /\ UNCHANGED audit_logs
          ELSE /\ out' = LoggedOutcome("get_patient_dashboard", current_user,
                                       patient, res)
               /\ audit_logs' = Logged(res)
    /\ UNCHANGED <<patients, documents>>
    /\ RecFrame

\* GET /patient-dashboard/documents
get_patient_documents(current_user, write_ok) ==
    /\ users[current_user].is_active
    /\ write_ok => Len(audit_logs) < MaxLogs
    /\ LET patient == PatientOf(current_user)
           res == log_patient_action(current_user, patient, write_ok)
       IN IF patient = None
          THEN /\ out' = Outcome("get_patient_documents", 404, current_user,
                                 None, None)
               /\ UNCHANGED audit_logs
          ELSE /\ out' = LoggedOutcome("get_patient_documents", current_user,
                                       patient, res)
               /\ audit_logs' = Logged(res)
    /\ UNCHANGED <<patients, documents>>
    /\ RecFrame

\* POST /audit/test
create_test_audit_log(current_user, write_ok) ==
    /\ users[current_user].is_active
    /\ write_ok => Len(audit_logs) < MaxLogs
    /\ LET res == log_user_action(current_user, write_ok)
       IN /\ out' = LoggedOutcome("create_test_audit_log", current_user,
                                  None, res)
          /\ audit_logs' = Logged(res)
    /\ UNCHANGED <<patients, documents>>
    /\ RecFrame

\* GET /audit/stats (admin only) and GET /audit/my-activity: queries only
get_audit_stats(current_user) ==
    /\ users[current_user].is_active
    /\ out' = Outcome("get_audit_stats",
                      IF users[current_user].role = "admin" THEN 200
                      ELSE 403,
                      current_user, None, None)
    /\ UNCHANGED <<patients, documents, audit_logs>>
    /\ RecFrame

\* a query that leaves out the filter on the actor
my_activity_query_unscoped(current_user) == DOMAIN audit_logs

\* line 158: db.query(AuditLog).filter(AuditLog.user_id == current_user.id)
my_activity_query(current_user) ==
    {i \in DOMAIN audit_logs : audit_logs[i].user_id = current_user}

get_my_activity(current_user, page, per_page) ==
    /\ users[current_user].is_active
    /\ LET query == my_activity_query(current_user)
           total == Cardinality(query)
           offset == (page - 1) * per_page
       IN \E ordered \in Orderings(query) :
             LET logs == Slice(ordered, offset, per_page)
             IN out' = [op |-> "get_my_activity", status |-> 200,
                        user |-> current_user, target |-> None,
                        clinic |-> None, audit_failed |-> FALSE,
                        page |-> page, per_page |-> per_page,
                        logs |-> [k \in 1..Len(logs) |->
                                    from_orm(audit_logs[logs[k]])],
                        total |-> total]
    /\ UNCHANGED <<patients, documents, audit_logs>>
    /\ RecFrame

\* the <<page, per_page>> of GET /audit/my-activity tried
ActivityParams == {<<1, 20>>, <<1, 1>>}

\* the telephone numbers written by updates
Phones == {"p1"}

\* rows of table documents
MaxDocs == 4

\* documents.py line 49: the clinic id used when the principal's clinic is
\* not found
DefaultClinicId == 1

\* lines 43-51 of upload_document: the clinic the new document is given
upload_clinic_id(current_user, clinic) ==
    IF users[current_user].role \in ClinicRoles
    THEN IF clinic = None THEN DefaultClinicId ELSE clinic
    ELSE None

\* db.query(Patient).filter(Patient.id == patient_id,
\*                          Patient.clinic_id == clinic_id).first()
PatientInClinic(patient_id, clinic_id) ==
    /\ patient_id \in DOMAIN patients
    /\ patients[patient_id].live
    /\ patients[patient_id].clinic_id = clinic_id

\* POST /documents/upload
upload_document(current_user, patient_id) ==
    /\ users[current_user].is_active
    /\ \E clinic \in FirstClinic(current_user) :
         LET clinic_id == upload_clinic_id(current_user, clinic)
             st == IF ~require_clinic_access(current_user) THEN 403
                   ELSE IF ~TruthyInt(clinic_id) THEN 400
                   ELSE IF /\ TruthyInt(patient_id)
                           /\ ~PatientInClinic(patient_id, clinic_id)
                   THEN 404 ELSE 200
         IN /\ st = 200 => Len(documents) < MaxDocs
            /\ documents' =
                  IF st = 200
                  THEN Append(documents,
                              [patient_id |-> patient_id,
                               clinic_id |-> clinic_id, live |-> TRUE])
                  ELSE documents
            /\ out' = Outcome("upload_document", st, current_user,
                              IF st = 200 THEN Len(documents) + 1 ELSE None,
                              clinic)
    /\ UNCHANGED <<patients, audit_logs>>
    /\ RecFrame

\* PUT /documents/{document_id}/assign.  Line 226 reads
\* assignment.patient_id, a field DocumentAssignmentRequest does not declare:
\* the read fails (500) unless the request model carries undeclared fields
assign_document_to_patient(current_user, document_id, patient_id, has_field) ==
    /\ users[current_user].is_active
    /\ \E clinic \in FirstClinic(current_user) :
         LET document == documents[document_id]
             st == IF ~require_clinic_access(current_user) THEN 403
                   ELSE IF ~document.live THEN 404
                   ELSE IF ~clinic_allowed(current_user, clinic,
                                           document.clinic_id)
                   THEN 403
                   ELSE IF ~has_field THEN 500
                   ELSE IF ~PatientInClinic(patient_id, document.clinic_id)
                   THEN 404 ELSE 200
         IN /\ documents' =
                  IF st = 200
                  THEN [documents EXCEPT ![document_id].patient_id = patient_id]
                  ELSE documents
            /\ out' = Outcome("assign_document_to_patient", st, current_user,
                              document_id, clinic)
    /\ UNCHANGED <<patients, audit_logs>>
    /\ RecFrame

\* PUT /documents/{document_id}: setattr of every field set in the body, then
\* commit; documents.patient_id is a foreign key to patients.id, so a
\* database that enforces it refuses the id of no patient
update_document(current_user, document_id, update_data, enforced) ==
    /\ users[current_user].is_active
    /\ \E clinic \in FirstClinic(current_user) :
         LET document == documents[document_id]
             patient_id == IF "patient_id" \in DOMAIN update_data
                           THEN update_data.patient_id
                           ELSE document.patient_id
             st == IF ~require_clinic_access(current_user) THEN 403
                   ELSE IF ~document.live THEN 404
                   ELSE IF ~clinic_allowed(current_user, clinic,
                                           document.clinic_id)
                   THEN 403
                   ELSE IF /\ enforced
                           /\ patient_id # None
                           /\ ~ (/\ patient_id \in DOMAIN patients
                                 /\ patients[patient_id].live)
                   THEN 500 ELSE 200
         IN /\ documents' =
                  IF st = 200
                  THEN [documents EXCEPT ![document_id].patient_id = patient_id]
                  ELSE documents
            /\ out' = Outcome("update_document", st, current_user,
                              document_id, clinic)
    /\ UNCHANGED <<patients, audit_logs>>
    /\ RecFrame

\* the patient ids and the document updates tried
PatientIds == {None, 1, 2}
DocumentUpdates ==
    <<[patient_id |-> 1], [patient_id |-> 2], [patient_id |-> 3],
      [notes |-> "n"]>>


----------------------------------------------------------------------------
(* routers/auth.py: register.  The handler commits twice, and requests     *)
(* served by different workers interleave between its queries and commits. *)

\* users created by registrations
MaxNewUsers == 2

\* a users table without the unique index on email
email_taken_unindexed(email) == FALSE

\* models/user.py line 20: email is unique, so the commit of a second row
\* with the same email fails
email_taken(email) == \E u \in DOMAIN users : users[u].email = email

RegisterOutcome(status, email, created, clinic) ==
    [op |-> "register", status |-> status, email |-> email,
     created |-> created, clinic |-> clinic]

\* lines 22-28: the email is looked up; 400 when a user has it
register_check(r, email, role, has_clinic) ==
    /\ req[r].pc = "idle"
    /\ IF UserByEmail(email) # None
       THEN /\ out' = RegisterOutcome(400, email, None, None)
            /\ UNCHANGED req
       ELSE /\ req' = [req EXCEPT ![r] =
                         [pc |-> "register_insert", email |-> email,
                          role |-> role, has_clinic |-> has_clinic,
                          created |-> None]]
            /\ UNCHANGED out
    /\ UNCHANGED <<stack, buckets, now, calls, maxes>>
    /\ UNCHANGED dbVars
    /\ UNCHANGED <<patients, documents, tokens>>

\* lines 30-42: the user row is added and committed; the IntegrityError of
\* a duplicate email is not caught and ends the request with 500
register_insert(r) ==
    /\ req[r].pc = "register_insert"
    /\ IF email_taken(req[r].email)
       THEN /\ out' = RegisterOutcome(500, req[r].email, None, None)
            /\ req' = [req EXCEPT ![r] = IdleReq]
            /\ UNCHANGED users
       ELSE /\ Len(users) < Len(RegisteredUsers) + MaxNewUsers
            /\ users' = Append(users,
                   [role |-> req[r].role, is_active |-> TRUE,
                    email |-> req[r].email,
                    hashed_password |-> get_password_hash("Secret1!")])
            /\ req' = [req EXCEPT ![r] =
                         [@ EXCEPT !.pc = "register_clinic",
                                   !.created = Len(users) + 1]]
            /\ UNCHANGED out
    /\ UNCHANGED <<stack, buckets, now, calls, maxes>>
    /\ UNCHANGED <<clinics, audit_logs, resp>>
    /\ UNCHANGED <<patients, documents, tokens>>

\* lines 44-61: a clinic administrator's clinic is added and committed, or
\* 400 when the clinic name or licence is missing
register_clinic(r) ==
    /\ req[r].pc = "register_clinic"
    /\ IF req[r].role = "clinic_admin"
       THEN IF ~req[r].has_clinic
            THEN /\ out' = RegisterOutcome(400, req[r].email,
                                           req[r].created, None)
                 /\ UNCHANGED clinics
            ELSE /\ clinics' = Append(clinics,
                                      [admin_user_id |-> req[r].created])
                 /\ out' = RegisterOutcome(200, req[r].email, req[r].created,
                                           Len(clinics) + 1)
       ELSE /\ out' = RegisterOutcome(200, req[r].email, req[r].created,
                                      None)
            /\ UNCHANGED clinics
    /\ req' = [req EXCEPT ![r] = IdleReq]
    /\ UNCHANGED <<stack, buckets, now, calls, maxes>>
    /\ UNCHANGED <<users, audit_logs, resp>>
    /\ UNCHANGED <<patients, documents, tokens>>

\* the registrations tried
RegisterEmails == {"new@x", "two@x", "three@x", "pat@x"}
RegisterRoles == {"clinic_admin", "patient"}

----------------------------------------------------------------------------
(* delete_patient, upload_document and assign_document_to_patient as they  *)
(* run side by side: each validates with queries and commits later.        *)

InFlight(pc, current_user, patient_id, document_id, clinic_id) ==
    [pc |-> pc, user |-> current_user, patient_id |-> patient_id,
     document_id |-> document_id, clinic_id |-> clinic_id]

RaceFrame ==
    /\ UNCHANGED <<stack, buckets, now, calls, maxes>>
    /\ UNCHANGED dbVars
    /\ UNCHANGED tokens

\* the row exists when the commit reaches the database
PatientRowLive(patient_id) ==
    patient_id \in DOMAIN patients /\ patients[patient_id].live

\* patients.py lines 272-287: the patient is looked up and its documents
\* are counted
delete_patient_check(r, current_user, patient_id) ==
    /\ req[r].pc = "idle"
    /\ users[current_user].is_active
    /\ \E clinic \in FirstClinic(current_user) :
         LET patient == patients[patient_id]
             document_count ==
                Cardinality({d \in DOMAIN documents :
                               /\ documents[d].live
                               /\ documents[d].patient_id = patient_id})
             st == IF ~require_clinic_access(current_user) THEN 403
                   ELSE IF ~patient.live THEN 404
                   ELSE IF ~clinic_allowed(current_user, clinic,
                                           patient.clinic_id)
                   THEN 403
                   ELSE IF document_count > 0 THEN 400
                   ELSE 200
         IN IF st = 200
            THEN /\ req' = [req EXCEPT ![r] =
                              InFlight("delete_patient_commit", current_user,
                                       patient_id, None, patient.clinic_id)]
                 /\ UNCHANGED out
            ELSE /\ out' = Outcome("delete_patient", st, current_user,
                                   patient_id, clinic)
                 /\ UNCHANGED req
    /\ UNCHANGED <<patients, documents>>
    /\ RaceFrame

\* patients.py lines 289-292: db.delete(patient) and commit.  The flush
\* sets patient_id to NULL on the documents it finds through
\* Patient.documents (a relationship without delete cascade) and deletes the
\* row; 500 when the row is already gone
delete_patient_commit(r) ==
    /\ req[r].pc = "delete_patient_commit"
    /\ LET q == req[r].patient_id
       IN IF ~PatientRowLive(q)
          THEN /\ out' = Outcome("delete_patient", 500, req[r].user, q, None)
               /\ UNCHANGED <<patients, documents>>
          ELSE /\ patients' = [patients EXCEPT ![q].live = FALSE]
               /\ documents' =
                     [d \in DOMAIN documents |->
                         IF documents[d].live /\ documents[d].patient_id = q
                         THEN [documents[d] EXCEPT !.patient_id = None]
                         ELSE documents[d]]
               /\ out' = Outcome("delete_patient", 200, req[r].user, q, None)
    /\ req' = [req EXCEPT ![r] = IdleReq]
    /\ RaceFrame

\* documents.py lines 42-65: the clinic is resolved and the patient is
\* validated
upload_validate(r, current_user, patient_id) ==
    /\ req[r].pc = "idle"
    /\ users[current_user].is_active
    /\ \E clinic \in FirstClinic(current_user) :
         LET clinic_id == upload_clinic_id(current_user, clinic)
             st == IF ~require_clinic_access(current_user) THEN 403
                   ELSE IF ~TruthyInt(clinic_id) THEN 400
                   ELSE IF /\ TruthyInt(patient_id)
                           /\ ~PatientInClinic(patient_id, clinic_id)
                   THEN 404 ELSE 200
         IN IF st = 200
            THEN /\ req' = [req EXCEPT ![r] =
                              InFlight("upload_commit", current_user,
                                       patient_id, None, clinic_id)]
                 /\ UNCHANGED out
            ELSE /\ out' = Outcome("upload_document", st, current_user, None,
                                   clinic)
                 /\ UNCHANGED req
    /\ UNCHANGED <<patients, documents>>
    /\ RaceFrame

\* documents.py lines 67-88: the document row is added and committed; a
\* database that enforces documents.patient_id refuses the id of a patient
\* that is gone
upload_commit(r, enforced) ==
    /\ req[r].pc = "upload_commit"
    /\ LET q == req[r].patient_id
           refused == enforced /\ q # None /\ ~PatientRowLive(q)
       IN /\ ~refused => Len(documents) < MaxDocs
          /\ documents' =
                IF refused THEN documents
                ELSE Append(documents,
                            [patient_id |-> q, clinic_id |-> req[r].clinic_id,
                             live |-> TRUE])
          /\ out' = Outcome("upload_document", IF refused THEN 500 ELSE 200,
                            req[r].user,
                            IF refused THEN None ELSE Len(documents) + 1,
                            None)
    /\ req' = [req EXCEPT ![r] = IdleReq]
    /\ UNCHANGED patients
    /\ RaceFrame

\* documents.py lines 214-230: the document is looked up and the patient is
\* validated against the document's clinic
assign_validate(r, current_user, document_id, patient_id, has_field) ==
    /\ req[r].pc = "idle"
    /\ users[current_user].is_active
    /\ \E clinic \in FirstClinic(current_user) :
         LET document == documents[document_id]
             st == IF ~require_clinic_access(current_user) THEN 403
                   ELSE IF ~document.live THEN 404
                   ELSE IF ~clinic_allowed(current_user, clinic,
                                           document.clinic_id)
                   THEN 403
                   ELSE IF ~has_field THEN 500
                   ELSE IF ~PatientInClinic(patient_id, document.clinic_id)
                   THEN 404 ELSE 200
         IN IF st = 200
            THEN /\ req' = [req EXCEPT ![r] =
                              InFlight("assign_commit", current_user,
                                       patient_id, document_id,
                                       document.clinic_id)]
                 /\ UNCHANGED out
            ELSE /\ out' = Outcome("assign_document_to_patient", st,
                                   current_user, document_id, clinic)
                 /\ UNCHANGED req
    /\ UNCHANGED <<patients, documents>>
    /\ RaceFrame

\* documents.py lines 232-237: document.patient_id is set and committed
assign_commit(r, enforced) ==
    /\ req[r].pc = "assign_commit"
    /\ LET q == req[r].patient_id
           d == req[r].document_id
           refused == \/ ~documents[d].live
                      \/ enforced /\ ~PatientRowLive(q)
       IN /\ documents' =
                IF refused THEN documents
                ELSE [documents EXCEPT ![d].patient_id = q]
          /\ out' = Outcome("assign_document_to_patient",
                            IF refused THEN 500 ELSE 200, req[r].user, d,
                            None)
    /\ req' = [req EXCEPT ![r] = IdleReq]
    /\ UNCHANGED patients
    /\ RaceFrame

\* the clinic administrators whose requests run side by side
RaceUsers == {2, 3}

----------------------------------------------------------------------------
(* Specifications.                                                         *)

\* the middleware stack of the design document (4.7): rate limit, then CSRF
PipelineStack == <<"Security", "CSRF">>

\* the middleware main.py installs on the application
AppStack == <<"CORS">>

InitCommon ==
    /\ req = [r \in Reqs |-> IdleReq]
    /\ buckets = [c \in Clients |-> NoBucket]
    /\ now = 0
    /\ calls = [c \in Clients |-> [made |-> 0, admitted |-> 0]]
    /\ maxes = [c \in Clients |-> 0]
    /\ users = RegisteredUsers
    /\ clinics = RegisteredClinics
    /\ audit_logs = <<>>
    /\ resp = NoResp
    /\ patients = RegisteredPatients
    /\ documents = StoredDocuments
    /\ tokens = <<>>
    /\ out = NoOut

\* the security pipeline serving one request at a time
Init == stack = PipelineStack /\ InitCommon

ReceiveAny(r) ==
    \E m \in Methods, p \in Paths, a \in AuthHeaders, c \in Clients :
       Receive(r, m, p, a, c)

Next ==
    \/ ReceiveAny("r1")
    \/ SecurityMiddleware_dispatch("r1")
    \/ CSRFMiddleware_dispatch("r1")
    \/ Route("r1")
    \/ SecurityMiddleware_headers("r1")
    \/ Complete("r1")
    \/ Tick

Spec == Init /\ [][Next]_vars

\* the security pipeline serving concurrent requests (safe methods)
ReceiveGet(r) ==
    \E p \in Paths : Receive(r, "GET", p, NoHeader, "10.0.0.1")

NextConc ==
    \/ \E r \in Reqs : ReceiveGet(r)
    \/ \E r \in Reqs : SecurityMiddleware_dispatch(r)
    \/ \E r \in Reqs : CSRFMiddleware_dispatch(r)
    \/ \E r \in Reqs : Route(r)
    \/ \E r \in Reqs : SecurityMiddleware_headers(r)
    \/ \E r \in Reqs : Complete(r)
    \/ Tick

SpecConc == Init /\ [][NextConc]_vars

\* the application as main.py builds it
InitApp == stack = AppStack /\ InitCommon

NextApp ==
    \/ \E r \in Reqs : ReceiveAny(r)
    \/ \E r \in Reqs : CORSMiddleware_dispatch(r)
    \/ \E r \in Reqs : Route(r)
    \/ \E r \in Reqs : Complete(r)

SpecApp == InitApp /\ [][NextApp]_vars

\* a GET /audit/logs request of any registered user with any parameters
AuditRequest ==
    /\ ~resp.called
    /\ \E u \in DOMAIN users, pg \in PageParams,
          action \in ActionParams, entity_type \in EntityParams,
          user_id \in UserIdParams, clinic_id \in ClinicIdParams,
          patient_id \in PatientIdParams, date_from \in DateParams,
          date_to \in DateParams, success \in SuccessParams :
            get_audit_logs(u, pg[1], pg[2], action, entity_type, user_id,
                           clinic_id, patient_id, date_from, date_to, success)

\* the audit trail and its queries
NextAudit ==
    \/ \E row \in AuditRows : AuditLogInsert(row)
    \/ AuditRequest
    \/ AuditResponseSent

SpecAudit == Init /\ [][NextAudit]_vars

\* the response of the last handler call has been sent
Answered ==
    /\ out.op # "none"
    /\ out' = NoOut
    /\ UNCHANGED <<patients, documents, tokens>>
    /\ UNCHANGED dbVars
    /\ UNCHANGED mwVars

\* the handlers over documents, patients and the audit trail, one call at
\* a time
RecordsCall ==
    /\ out.op = "none"
    /\ \E u \in DOMAIN users :
          \/ \E d \in DOMAIN documents : get_document(u, d)
          \/ \E d \in DOMAIN documents : delete_document(u, d)
          \/ \E q \in DOMAIN patients, ph \in Phones :
                update_patient(u, q, ph)
          \/ \E q \in DOMAIN patients : delete_patient(u, q)
          \/ \E w \in BOOLEAN : get_patient_dashboard(u, w)
          \/ \E w \in BOOLEAN : get_patient_documents(u, w)
          \/ \E w \in BOOLEAN : create_test_audit_log(u, w)
          \/ get_audit_stats(u)
          \/ \E pg \in ActivityParams : get_my_activity(u, pg[1], pg[2])
NextRecords == RecordsCall \/ Answered
SpecRecords == Init /\ [][NextRecords]_vars

\* the authentication endpoints, the profile and the clock, one call at a
\* time
AuthCall ==
    /\ out.op = "none"
    /\ \/ \E n \in LoginNames, p \in Passwords : login(n, p)
       \/ \E n \in LoginNames, p \in Passwords : login_json(n, p)
       \/ \E t \in Presented : get_current_user_profile(t)
       \/ \E t \in Presented, i \in DOMAIN UpdateData :
             update_user_profile(t, UpdateData[i])
NextAuth == AuthCall \/ Answered \/ Clock
SpecAuth == Init /\ [][NextAuth]_vars

\* the logger adds a row; created_at is the database's now(), which is the
\* instant of the row before it when both are written in the same instant
AuditLogWrite(row, same_instant) ==
    /\ Len(audit_logs) < MaxLogs
    /\ audit_logs' = Append(audit_logs,
           [id |-> Len(audit_logs) + 1, user_id |-> row.user_id,
            action |-> row.action, entity_type |-> row.entity_type,
            clinic_id |-> row.clinic_id, patient_id |-> row.patient_id,
            success |-> row.success,
            created_at |-> IF same_instant /\ Len(audit_logs) > 0
                           THEN audit_logs[Len(audit_logs)].created_at
                           ELSE Len(audit_logs) + 1])
    /\ UNCHANGED <<users, clinics, resp>>
    /\ UNCHANGED mwVars
    /\ UNCHANGED recVars

\* the rows written, the principals and the <<page, per_page>> of the
\* clients that page through GET /audit/logs
PagedRows ==
    {row \in AuditRows :
        row.clinic_id = 1 /\ row.entity_type \in {"user", "document"}}
PagingUsers == {1, 5}
PagingParams == {<<1, 1>>, <<2, 1>>, <<1, 2>>, <<2, 2>>}

\* GET /audit/logs?page=..&per_page=.. without filters
PageRequest ==
    /\ ~resp.called
    /\ \E u \in PagingUsers, pg \in PagingParams :
          get_audit_logs(u, pg[1], pg[2], NoneStr, NoneStr, None, None, None,
                         None, None, <<>>)

\* the client keeps the page it received and goes on to ask for another
KeepPage ==
    /\ resp.called
    /\ out.op = "none"
    /\ out' = [op |-> "page", prev |-> resp]
    /\ resp' = NoResp
    /\ UNCHANGED <<users, clinics, audit_logs, patients, documents, tokens>>
    /\ UNCHANGED mwVars

\* clients paging through the audit trail while it is written
NextPages ==
    \/ \E row \in PagedRows, same_instant \in BOOLEAN :
          AuditLogWrite(row, same_instant)
    \/ PageRequest
    \/ KeepPage
    \/ AuditResponseSent
    \/ Answered
SpecPages == Init /\ [][NextPages]_vars

\* the handlers that create, assign, update and delete documents and delete
\* patients, one call at a time
DocsCall ==
    /\ out.op = "none"
    /\ \E u \in DOMAIN users :
          \/ \E q \in PatientIds : upload_document(u, q)
          \/ \E d \in DOMAIN documents, q \in PatientIds \ {None},
                has_field \in BOOLEAN :
                assign_document_to_patient(u, d, q, has_field)
          \/ \E d \in DOMAIN documents, i \in DOMAIN DocumentUpdates,
                enforced \in BOOLEAN :
                update_document(u, d, DocumentUpdates[i], enforced)
          \/ \E d \in DOMAIN documents : delete_document(u, d)
          \/ \E q \in DOMAIN patients : delete_patient(u, q)
NextDocs == DocsCall \/ Answered
SpecDocs == Init /\ [][NextDocs]_vars

\* concurrent POST /auth/register requests
NextRegister ==
    \/ \E r \in Reqs, email \in RegisterEmails, role \in RegisterRoles,
          has_clinic \in BOOLEAN : register_check(r, email, role, has_clinic)
    \/ \E r \in Reqs : register_insert(r)
    \/ \E r \in Reqs : register_clinic(r)
SpecRegister == Init /\ [][NextRegister]_vars

\* a document is deleted while no other request is served
DeleteDocumentAlone ==
    /\ \A r \in Reqs : req[r].pc = "idle"
    /\ \E u \in RaceUsers, d \in DOMAIN documents : delete_document(u, d)

\* delete_patient side by side with upload and assign
NextRace ==
    \/ \E r \in Reqs, u \in RaceUsers, q \in DOMAIN patients :
          delete_patient_check(r, u, q)
    \/ \E r \in Reqs : delete_patient_commit(r)
    \/ \E r \in Reqs, u \in RaceUsers, q \in PatientIds :
          upload_validate(r, u, q)
    \/ \E r \in Reqs, enforced \in BOOLEAN : upload_commit(r, enforced)
    \/ \E r \in Reqs, u \in RaceUsers, d \in DOMAIN documents,
          q \in PatientIds \ {None}, has_field \in BOOLEAN :
          assign_validate(r, u, d, q, has_field)
    \/ \E r \in Reqs, enforced \in BOOLEAN : assign_commit(r, enforced)
    \/ DeleteDocumentAlone
SpecRace == Init /\ [][NextRace]_vars

----------------------------------------------------------------------------
(* Properties.                                                             *)

Decided(r) == req[r].rate # "none"
PastCsrf(r) == req[r].csrf # "none"
Mutating(r) == req[r].method \notin {"GET", "HEAD", "OPTIONS"}
AuthPath(r) == startswith(req[r].path, "/auth/")

\* C1: inside one window in which every call was made with the same
\* max_requests, the n-th call of a client is admitted iff n <= max_requests:
\* the call that reaches the limit is admitted, the next one is answered 429.
C1_FixedWindowAdmission ==
    \A r \in Reqs :
       (Decided(r) /\ maxes[req[r].client] = max_requests(req[r].path)) =>
          /\ req[r].rate = "allowed" <=> req[r].nth <= max_requests(req[r].path)
          /\ req[r].rate = "rejected" <=> req[r].status = 429

\* the sixth authentication request of a window of authentication requests
C1_Witness ==
    \E r \in Reqs :
       /\ req[r].path = "/auth/login"
       /\ maxes[req[r].client] = AuthMax
       /\ req[r].nth = AuthMax + 1
       /\ req[r].rate = "rejected"

\* the rows the store held when the query of the last response ran, and
\* those of them the response returned
Seen == 1..resp.rows
Returned(i) == \E k \in 1..Len(resp.logs) : resp.logs[k].id = audit_logs[i].id
RoleOf(u) == users[u].role
OwnClinics(u) == {c \in DOMAIN clinics : clinics[c].admin_user_id = u}

\* C2: every entry GET /audit/logs returns to a clinic administrator or a
\* clinic staff member is of the principal's own clinic or, when the
\* principal has no clinic, was made by the principal.
C2_ClinicScope ==
    (resp.called /\ RoleOf(resp.user) \in {"clinic_admin", "clinic_staff"}) =>
       \A k \in 1..Len(resp.logs) :
          IF OwnClinics(resp.user) # {}
          THEN resp.logs[k].clinic_id \in OwnClinics(resp.user)
          ELSE resp.logs[k].user_id = resp.user

\* a clinic administrator is answered while the store holds a row of another
\* clinic, and receives a row of the own clinic
C2_Witness ==
    /\ resp.called
    /\ RoleOf(resp.user) = "clinic_admin"
    /\ Len(resp.logs) > 0
    /\ \E i \in Seen :
          /\ audit_logs[i].clinic_id # None
          /\ audit_logs[i].clinic_id \notin OwnClinics(resp.user)

\* C3: every entry GET /audit/logs returns to a patient was made by that
\* patient and is about a user or a document.
C3_PatientScope ==
    (resp.called /\ RoleOf(resp.user) = "patient") =>
       \A k \in 1..Len(resp.logs) :
          /\ resp.logs[k].user_id = resp.user
          /\ resp.logs[k].entity_type \in {"user", "document"}

\* a patient is answered with an own row while the store holds another
\* user's row
C3_Witness ==
    /\ resp.called
    /\ RoleOf(resp.user) = "patient"
    /\ Len(resp.logs) > 0
    /\ \E i \in Seen :
          /\ audit_logs[i].user_id # resp.user
          /\ audit_logs[i].entity_type \in {"user", "document"}

\* the whole matched set is on the page returned
WholePage == resp.page = 1 /\ resp.per_page >= resp.rows

\* C4 as stated: an entry of clinic c is returned to a clinic administrator
\* of clinic c, to no clinic administrator of another clinic, and to no
\* patient whatever its actor and entity type.
C4_Original ==
    resp.called =>
       \A i \in Seen :
          audit_logs[i].clinic_id # None =>
             /\ ( /\ RoleOf(resp.user) = "clinic_admin"
                  /\ OwnClinics(resp.user) = {audit_logs[i].clinic_id}
                  /\ ~resp.filtered /\ WholePage ) => Returned(i)
             /\ ( /\ RoleOf(resp.user) = "clinic_admin"
                  /\ OwnClinics(resp.user) # {}
                  /\ audit_logs[i].clinic_id \notin OwnClinics(resp.user) )
                => ~Returned(i)
             /\ RoleOf(resp.user) = "patient" => ~Returned(i)

\* C4 amended: an entry of clinic c is returned to a clinic administrator of
\* clinic c, to no clinic administrator of another clinic, and to a patient
\* only when the patient made it and it is about a user or a document.
C4_Visibility ==
    resp.called =>
       \A i \in Seen :
          audit_logs[i].clinic_id # None =>
             /\ ( /\ RoleOf(resp.user) = "clinic_admin"
                  /\ OwnClinics(resp.user) = {audit_logs[i].clinic_id}
                  /\ ~resp.filtered /\ WholePage ) => Returned(i)
             /\ ( /\ RoleOf(resp.user) = "clinic_admin"
                  /\ OwnClinics(resp.user) # {}
                  /\ audit_logs[i].clinic_id \notin OwnClinics(resp.user) )
                => ~Returned(i)
             /\ ( /\ RoleOf(resp.user) = "patient"
                  /\ ~ ( /\ audit_logs[i].user_id = resp.user
                         /\ audit_logs[i].entity_type \in {"user", "document"} ) )
                => ~Returned(i)

\* the administrator of one clinic is answered, without filters, while the
\* store holds a row of that clinic and a row of the other clinic
C4_Witness ==
    /\ resp.called
    /\ RoleOf(resp.user) = "clinic_admin"
    /\ ~resp.filtered
    /\ \E i, j \in Seen :
          /\ OwnClinics(resp.user) = {audit_logs[i].clinic_id}
          /\ Returned(i)
          /\ audit_logs[j].clinic_id # None
          /\ audit_logs[j].clinic_id \notin OwnClinics(resp.user)
          /\ ~Returned(j)

\* the rows GET /audit/logs matches for the principal without any filter
Unfiltered(u, clinic) ==
    {i \in Seen :
        Matches(audit_logs[i], u, clinic, NoneStr, NoneStr, None, None, None,
                None, None, <<>>)}

\* C5: whatever filters the caller supplies, the entries matched are among
\* those matched for the same principal without filters.
C5_FiltersNarrow ==
    resp.called =>
       /\ \A k \in 1..Len(resp.logs) :
             \E i \in Unfiltered(resp.user, resp.clinic) :
                audit_logs[i].id = resp.logs[k].id
       /\ resp.total <= Cardinality(Unfiltered(resp.user, resp.clinic))

\* a clinic administrator asks for the rows of another clinic, which the
\* store holds, and is answered with none; or a patient asks for the rows of
\* another user
C5_Witness ==
    /\ resp.called
    /\ RoleOf(resp.user) = "clinic_admin"
    /\ resp.clinic_id # None
    /\ resp.clinic_id \notin OwnClinics(resp.user)
    /\ \E i \in Seen : audit_logs[i].clinic_id = resp.clinic_id
    /\ resp.total = 0

\* C6 as stated: the CSRF check answers 403, and the handler does not run,
\* exactly when the method is not safe, the path is not under /auth/ and the
\* request carries no Authorization header.
C6_Original ==
    \A r \in Reqs :
       PastCsrf(r) =>
          /\ req[r].status = 403 <=>
                (Mutating(r) /\ ~AuthPath(r) /\ req[r].auth = NoHeader)
          /\ req[r].status = 403 => ~req[r].ran

\* C6 amended: ... and the request carries no Authorization header or one
\* with an empty value.
C6_CsrfRule ==
    \A r \in Reqs :
       PastCsrf(r) =>
          /\ req[r].status = 403 <=>
                ( /\ Mutating(r)
                  /\ ~AuthPath(r)
                  /\ (req[r].auth = NoHeader \/ req[r].auth = "") )
          /\ req[r].status = 403 => ~req[r].ran

\* a POST outside /auth/ without the header has been answered 403
C6_Witness ==
    \E r \in Reqs :
       /\ req[r].method = "POST"
       /\ ~AuthPath(r)
       /\ req[r].auth = NoHeader
       /\ req[r].pc = "out" /\ req[r].depth = 0
       /\ req[r].status = 403
       /\ ~req[r].ran

\* C7 as stated: a mutating request outside /auth/ whose Authorization
\* header is present, whatever its value, passes the CSRF check.
C7_Original ==
    \A r \in Reqs :
       (PastCsrf(r) /\ Mutating(r) /\ ~AuthPath(r) /\ req[r].auth # NoHeader)
          => (req[r].csrf = "passed" /\ req[r].status # 403)

\* C7 amended: ... whose Authorization header is present with a value that
\* is not empty, whatever that value, passes the CSRF check; it is refused,
\* if at all, at authentication.
C7_HeaderPresence ==
    \A r \in Reqs :
       ( /\ PastCsrf(r) /\ Mutating(r) /\ ~AuthPath(r)
         /\ req[r].auth # NoHeader /\ req[r].auth # "" )
          => (req[r].csrf = "passed" /\ req[r].status \in {0, 200, 401})

\* a POST outside /auth/ with a bearer value that does not verify has passed
\* the CSRF check and has been refused at authentication
C7_Witness ==
    \E r \in Reqs :
       /\ req[r].method = "POST"
       /\ ~AuthPath(r)
       /\ req[r].auth = "Bearer tok"
       /\ req[r].csrf = "passed"
       /\ req[r].status = 401
       /\ ~req[r].ran

\* C8: no handler of the application runs for a request that the rate
\* limiter did not admit or, when it is mutating and outside /auth/, that the
\* CSRF check did not pass.
C8_PipelineGuard ==
    \A r \in Reqs :
       req[r].ran =>
          /\ req[r].rate = "allowed"
          /\ (Mutating(r) /\ ~AuthPath(r)) => req[r].csrf = "passed"

\* the count the rate limiter uses for a client's requests to a path
CountFor(c, p) == buckets[get_client_ip([client |-> c, path |-> p])].count

\* C9: the rate-limit decision on a request leaves the count used for the
\* same client's requests to every other endpoint class as it was.
C9_IndependentClasses ==
    [][\A r \in Reqs :
          (~Decided(r) /\ req'[r].rate # "none") =>
             \A p \in Paths :
                endpoint_class(p) # endpoint_class(req[r].path) =>
                   CountFor(req[r].client, p)' = CountFor(req[r].client, p)]_vars

\* C10: with requests of one client in flight at once, the bucket of a key
\* counts every is_allowed call made in its window, and the calls admitted in
\* a window of calls with one max_requests do not exceed it.
C10_NoLostUpdate ==
    \A c \in Clients :
       /\ buckets[c].live => buckets[c].count = calls[c].made
       /\ \A r \in Reqs :
             (req[r].client = c /\ maxes[c] = max_requests(req[r].path))
                => calls[c].admitted <= max_requests(req[r].path)

\* two requests of one client are in flight, both counted, the later one
\* over the limit
C10_Witness ==
    \E r1, r2 \in Reqs :
       /\ r1 # r2
       /\ req[r1].client = req[r2].client
       /\ Decided(r1) /\ Decided(r2)
       /\ req[r1].pc = "in" /\ req[r2].pc = "out"
       /\ req[r2].rate = "rejected"
       /\ buckets[req[r1].client].count = req[r2].nth

\* C11: an is_allowed call on a key whose window has elapsed is admitted and
\* leaves a fresh bucket with count 1 and window_start = now, however many
\* calls the elapsed window rejected; a rejected call leaves window_start as
\* it was.
C11_WindowReset ==
    [][\A r \in Reqs :
          (~Decided(r) /\ req'[r].rate # "none") =>
             LET c == req[r].client
                 b == buckets[c]
             IN /\ (b.live /\ now - b.window_start >= window(req[r].path)) =>
                      /\ req'[r].rate = "allowed"
                      /\ buckets'[c] = [live |-> TRUE, window_start |-> now,
                                        count |-> 1]
                /\ req'[r].rate = "rejected" =>
                      /\ buckets'[c].window_start = b.window_start
                      /\ now - b.window_start < window(req[r].path)]_vars

\* a request rejected in one window is still being answered when, a window
\* later, the same client's next request opens a fresh bucket
C11_Witness ==
    \E r1, r2 \in Reqs :
       /\ req[r1].client = req[r2].client
       /\ req[r2].rate = "rejected"
       /\ req[r1].rate = "allowed" /\ req[r1].nth = 1
       /\ now >= WindowSeconds
       /\ buckets[req[r1].client] =
             [live |-> TRUE, window_start |-> now, count |-> 1]

\* the request has reached the router: its dependencies (authentication)
\* were resolved and it was answered 401 or its handler ran
Routed(r) == req[r].ran \/ req[r].status = 200 \/ req[r].status = 401

\* C12: a request reaches the CSRF check only after the rate limiter admitted
\* it, and reaches authentication and the handler only after both; a request
\* answered 429 has met no CSRF check, and one answered 429 or 403 has
\* reached neither authentication nor the handler.
C12_PipelineOrder ==
    \A r \in Reqs :
       /\ PastCsrf(r) => req[r].rate = "allowed"
       /\ Routed(r) =>
             /\ req[r].rate = "allowed"
             /\ req[r].csrf \in {"skipped", "passed"}
       /\ req[r].rate = "rejected" =>
             (req[r].status = 429 /\ req[r].csrf = "none" /\ ~req[r].ran)
       /\ req[r].csrf = "rejected" => (req[r].status = 403 /\ ~req[r].ran)

\* the response of the request has left the application for the client
Sent(r) == req[r].pc = "out" /\ req[r].depth = 0

\* C13: every response sent to a client, the 429 and 403 rejections
\* included, carries the security headers.
C13_HeadersAlways ==
    \A r \in Reqs : Sent(r) => req[r].hdrs

\* a login attempt has just failed
LoginFailed ==
    /\ out' # out
    /\ out'.op \in {"login", "login_json"}
    /\ out'.status \in {400, 401}

\* C14: every failed login attempt adds exactly one audit row, with a null
\* actor, the LOGIN action, an entity type, success = false and a creation
\* time.
C14_FailedLoginAudited ==
    [][LoginFailed =>
          /\ Len(audit_logs') = Len(audit_logs) + 1
          /\ LET row == audit_logs'[Len(audit_logs')]
             IN /\ row.user_id = None
                /\ row.action = "login"
                /\ row.entity_type = "user"
                /\ row.success = FALSE
                /\ row.created_at # None]_vars

C16_AppendOnly ==
    [][/\ Len(audit_logs') >= Len(audit_logs)
       /\ \A i \in DOMAIN audit_logs : audit_logs'[i] = audit_logs[i]]_vars

\* a patient row has been deleted and the audit rows about that patient are
\* still in the store
C16_Witness ==
    \E q \in DOMAIN patients :
       /\ ~patients[q].live
       /\ out.op = "delete_patient" /\ out.status = 200
       /\ \E i \in DOMAIN audit_logs : audit_logs[i].patient_id = q

\* C17: a handler call on a document or a patient succeeds for a clinic
\* administrator or clinic staff member only when the row is of the
\* principal's own clinic (never when the principal has no clinic), and for a
\* patient only when the row is the patient's own.
C17_ResourceScope ==
    LET u == out.user
        onDocument == out.op \in {"get_document", "delete_document"}
        onPatient == out.op \in {"update_patient", "delete_patient"}
        clinic_id == IF onDocument THEN documents[out.target].clinic_id
                     ELSE patients[out.target].clinic_id
    IN ((onDocument \/ onPatient) /\ out.status = 200) =>
          /\ RoleOf(u) \in ClinicRoles =>
                (OwnClinics(u) # {} /\ clinic_id \in OwnClinics(u))
          /\ (RoleOf(u) = "patient" /\ onDocument) =>
                \E q \in DOMAIN patients :
                   /\ patients[q].user_id = u
                   /\ documents[out.target].patient_id = q
          /\ (RoleOf(u) = "patient" /\ onPatient) =>
                patients[out.target].user_id = u

TokenTtl == timedelta_minutes(access_token_expire_minutes)
LoginOk == out.op \in {"login", "login_json"} /\ out.status = 200
\* GET /auth/me was called with a token signed with the application's key
MeWithSigned == out.op = "me" /\ out.token.key = SecretKey

\* C18: a token verifies, to the subject it was issued for, at its issue time
\* and at every time up to its expiry (issue time + ttl); from expiry + 1 on
\* it fails with TokenExpired, whoever presents it.
C18_TokenExpiry ==
    /\ LoginOk =>
          /\ out.token.exp = out.at + TokenTtl
          /\ verify_token(out.token, out.at).ok
          /\ verify_token(out.token, out.at).sub = users[out.user].email
          /\ \A t \in Instants :
                /\ (out.at <= t /\ t <= out.at + TokenTtl) =>
                      /\ verify_token(out.token, t).ok
                      /\ verify_token(out.token, t).sub = out.token.sub
                /\ t >= out.at + TokenTtl + 1 =>
                      /\ ~verify_token(out.token, t).ok
                      /\ verify_token(out.token, t).error = "TokenExpired"
    /\ MeWithSigned =>
          /\ out.at > out.token.exp => out.status = 401
          /\ out.status = 200 =>
                /\ out.at <= out.token.exp
                /\ users[out.user].email = out.token.sub
          /\ ( /\ out.at <= out.token.exp
               /\ UserByEmail(out.token.sub) # None
               /\ users[UserByEmail(out.token.sub)].is_active )
             => (out.status = 200 /\ out.user = UserByEmail(out.token.sub))

\* a token of an active user is refused one second after its expiry
C18_Witness ==
    /\ MeWithSigned
    /\ out.at = out.token.exp + 1
    /\ out.status = 401
    /\ UserByEmail(out.token.sub) # None
    /\ users[UserByEmail(out.token.sub)].is_active

\* the subject of a token no longer resolves to an active account
SubjectGone(token) ==
    \/ UserByEmail(token.sub) = None
    \/ ~users[UserByEmail(token.sub)].is_active

\* C19: a request that presents a token which verifies correctly, made once
\* its subject is inactive or no longer exists, is answered 401 and changes
\* nothing, although the token has not expired.
C19_AccountState ==
    [][ ( /\ out.op = "none"
          /\ out'.op \in {"me", "update_profile"}
          /\ verify_token(out'.token, now).ok
          /\ SubjectGone(out'.token) )
        => (out'.status = 401 /\ out'.user = None /\ users' = users) ]_vars

\* GET /auth/me with an unexpired token of a user who was set inactive
C19_Witness ==
    /\ out.op = "me"
    /\ out.status = 401
    /\ verify_token(out.token, out.at).ok
    /\ UserByEmail(out.token.sub) # None
    /\ ~users[UserByEmail(out.token.sub)].is_active

Logins == {"login", "login_json"}

\* C21: every failed login is answered with the same status and detail,
\* whether the email is unknown, the password is wrong or the account is
\* inactive.
C21_GenericDenial ==
    (out.op \in Logins /\ out.status # 200) =>
       \A n \in LoginNames, p \in Passwords :
          LoginStatus(n, p) # 200 =>
             /\ LoginStatus(n, p) = out.status
             /\ LoginDetail(LoginStatus(n, p)) = out.detail

\* C26: a login returns a token exactly when a user with the email exists,
\* the password verifies against the stored hash and the user is active; no
\* other attempt issues a token, and an inactive user with a wrong password
\* gets the 401 credential error, an inactive user with the right password
\* the 400 inactive error.
C26_IssuancePrecondition ==
    [][ (out.op = "none" /\ out'.op \in Logins) =>
          LET u == UserByEmail(out'.username)
              known == u # None
              verified ==
                  known /\ verify_password(out'.password,
                                           users[u].hashed_password)
          IN /\ out'.status = 200 <=>
                   (known /\ verified /\ users[u].is_active)
             /\ out'.status = 200 =>
                   /\ tokens' = Append(tokens, out'.token)
                   /\ out'.token.sub = out'.username
                   /\ out'.user = u
             /\ out'.status # 200 =>
                   /\ tokens' = tokens
                   /\ out'.token = NoToken
             /\ (known /\ ~users[u].is_active /\ ~verified) =>
                   out'.status = 401
             /\ (known /\ ~users[u].is_active /\ verified) =>
                   out'.status = 400 ]_vars

\* an inactive user has tried to log in with a wrong password
C26_Witness ==
    /\ out.op \in Logins
    /\ out.status = 401
    /\ UserByEmail(out.username) # None
    /\ ~users[UserByEmail(out.username)].is_active
    /\ ~verify_password(out.password,
                        users[UserByEmail(out.username)].hashed_password)

\* the rows GET /audit/logs matched for the last response
Visible == Unfiltered(resp.user, resp.clinic)
Ids(logs) == {logs[k].id : k \in 1..Len(logs)}
Smaller(a, b) == IF a < b THEN a ELSE b
\* the client holds a page and has received another page of the same
\* principal and per_page over the same store
PagedTwice ==
    /\ out.op = "page"
    /\ resp.called
    /\ out.prev.user = resp.user
    /\ out.prev.per_page = resp.per_page
    /\ out.prev.rows = resp.rows
    /\ out.prev.page # resp.page

\* C22: a page of GET /audit/logs has at most per_page entries, newest
\* first, as many as the slice [(page-1)*per_page, page*per_page) of the
\* matched rows holds, and total is the number of matched rows; two
\* different pages over an unchanged store share no entry, and the pages
\* together hold every matched row, also when rows share one created_at.
C22_Pagination ==
    /\ resp.called =>
          /\ Len(resp.logs) <= resp.per_page
          /\ resp.per_page <= 100
          /\ resp.total = Cardinality(Visible)
          /\ Ids(resp.logs) \subseteq {audit_logs[i].id : i \in Visible}
          /\ LET offset == (resp.page - 1) * resp.per_page
             IN Len(resp.logs) =
                   IF resp.total <= offset THEN 0
                   ELSE Smaller(resp.per_page, resp.total - offset)
          /\ \A k \in 1..Len(resp.logs) : \A l \in 1..Len(resp.logs) :
                k < l => audit_logs[resp.logs[k].id].created_at
                            >= audit_logs[resp.logs[l].id].created_at
    /\ PagedTwice =>
          /\ out.prev.total = resp.total
          /\ Ids(out.prev.logs) \cap Ids(resp.logs) = {}
          /\ resp.total <= 2 * resp.per_page =>
                Ids(out.prev.logs) \cup Ids(resp.logs)
                   = {audit_logs[i].id : i \in Visible}

\* C23: every entry GET /audit/my-activity returns, to a principal of any
\* role, was made by that principal, and total is the number of rows of the
\* store made by that principal.
C23_SelfScoped ==
    out.op = "get_my_activity" =>
       /\ \A k \in 1..Len(out.logs) : out.logs[k].user_id = out.user
       /\ out.total =
             Cardinality({i \in DOMAIN audit_logs :
                             audit_logs[i].user_id = out.user})
       /\ Len(out.logs) = Smaller(out.per_page, out.total)

\* a principal receives an own entry while the store holds an entry of
\* another actor
C23_Witness ==
    /\ out.op = "get_my_activity"
    /\ Len(out.logs) > 0
    /\ \E i \in DOMAIN audit_logs : audit_logs[i].user_id # out.user

\* the tiers of the design document, path by path
UploadPaths == {"/documents/upload", "/documents/upload/"}
AuthPaths == {"/auth/login", "/auth/me", "/auth/"}
GeneralPaths == {"/patients", "/documents/7", "/health", "/auth"}
TierOf(path) ==
    IF path \in UploadPaths THEN [class |-> "upload", max |-> 10, per |-> 3600]
    ELSE IF path \in AuthPaths
    THEN [class |-> "authentication", max |-> 5, per |-> 3600]
    ELSE [class |-> "general", max |-> 1000, per |-> 3600]

\* C24: every path falls in exactly one endpoint class, upload paths with
\* 10 requests per 3600 s, authentication paths with 5, every other path
\* with 1000; and each request is admitted or refused by the limiter called
\* with the threshold and window of the class of its path.
C24_TierSelection ==
    [][ /\ \A p \in UploadPaths \cup AuthPaths \cup GeneralPaths :
              /\ endpoint_class(p) = TierOf(p).class
              /\ max_requests(p) = TierOf(p).max
              /\ window(p) = TierOf(p).per
        /\ \A r \in Reqs :
              (req[r].rate = "none" /\ req'[r].rate # "none") =>
                 LET tier == TierOf(req[r].path)
                     c == req[r].client
                     res == is_allowed(buckets[c], tier.max, tier.per, now)
                 IN /\ buckets'[c] = res.bucket
                    /\ (req'[r].rate = "allowed") = res.allowed
                    /\ (req'[r].status = 429) = ~res.allowed ]_vars

\* the sixth request of a window of upload requests is admitted
C24_Witness ==
    \E r \in Reqs :
       /\ req[r].path = "/documents/upload"
       /\ maxes[req[r].client] = UploadMax
       /\ req[r].nth = AuthMax + 1
       /\ req[r].rate = "allowed"

\* C25: a document created by an upload has the clinic of the uploading
\* principal, and a clinic administrator or staff member whose clinic is not
\* found is refused.
C25_UploadClinic ==
    out.op = "upload_document" =>
       /\ out.status = 200 =>
             documents[out.target].clinic_id \in OwnClinics(out.user)
       /\ (RoleOf(out.user) \in ClinicRoles /\ OwnClinics(out.user) = {}) =>
             out.status # 200

\* C28: every document with a patient_id refers to an existing patient of the
\* document's own clinic.
C28_DocumentPatientClinic ==
    \A d \in DOMAIN documents :
       (documents[d].live /\ documents[d].patient_id # None) =>
          /\ documents[d].patient_id \in DOMAIN patients
          /\ patients[documents[d].patient_id].live
          /\ patients[documents[d].patient_id].clinic_id
                = documents[d].clinic_id

Quiet == \A r \in Reqs : req[r].pc = "idle"

\* C27: a registration answered with an error has created no user and no
\* clinic, and when no registration is in progress every clinic
\* administrator has a clinic.
C27_RegisterAllOrNothing ==
    /\ (out.op = "register" /\ out.status # 200) =>
          (out.created = None /\ out.clinic = None)
    /\ Quiet =>
          \A u \in DOMAIN users :
             RoleOf(u) = "clinic_admin" => OwnClinics(u) # {}

\* C30: no two users share an email; a registration answered 200 has
\* created the user with its email, and a registration that lost to another
\* for the same email is answered with an error and has created neither a
\* user nor a clinic.
C30_EmailUnique ==
    /\ \A u, v \in DOMAIN users :
          users[u].email = users[v].email => u = v
    /\ out.op = "register" =>
          /\ out.status = 200 =>
                (out.created # None /\ users[out.created].email = out.email)
          /\ out.created = None =>
                (out.status # 200 /\ out.clinic = None)
          /\ out.created # None => out.created > Len(RegisteredUsers)
          /\ out.clinic # None =>
                clinics[out.clinic].admin_user_id = out.created

\* of two registrations that both found the email free, the second to
\* commit has failed
C30_Witness ==
    /\ out.op = "register"
    /\ out.status = 500
    /\ out.created = None
    /\ \E u \in DOMAIN users :
          u > Len(RegisteredUsers) /\ users[u].email = out.email

\* C29: a patient that documents refer to is not deleted (400), a deleted
\* patient is gone, and whatever the interleaving of delete_patient with
\* uploads and assignments, no document refers to a deleted patient.
C29_DeleteGuard ==
    /\ (out.op = "delete_patient" /\ out.status = 400) =>
          patients[out.target].live
    /\ (out.op = "delete_patient" /\ out.status = 200) =>
          ~patients[out.target].live
    /\ \A d \in DOMAIN documents :
          (documents[d].live /\ documents[d].patient_id # None) =>
             PatientRowLive(documents[d].patient_id)

====
